---- MODULE Spec2Model ----
(***************************************************************************)
(* csvutils: WriteCSV flattens records (structs with nested and optional   *)
(* nested structs) into a CSV file, ReadCSV resolves a record type against *)
(* the header row once, then reads the rows one by one and hands each to a *)
(* worker pool that rebuilds the record and calls the caller's handler.    *)
(*                                                                         *)
(* Strings are sequences of one-character strings, so that parsing and     *)
(* formatting are computed character by character.  Floats are held to one *)
(* decimal digit, as a number of tenths.                                   *)
(***************************************************************************)
EXTENDS Integers, Sequences, FiniteSets, TLC

(***************************************************************************)
(* Bounds of the model.                                                    *)
(***************************************************************************)
\* records handed to one WriteCSV call (0 is the empty input)
MaxRecords == 2
\* WriteCSV calls before the ReadCSV call
MaxWrites == 2
\* largest value given to WithConcurrency
MaxConcurrency == 2

(***************************************************************************)
(* strconv and fmt: the value codec.                                       *)
(***************************************************************************)
Digits == <<"0", "1", "2", "3", "4", "5", "6", "7", "8", "9">>

IsDigit(c) == \E d \in 1..10 : Digits[d] = c

DigitVal(c) == (CHOOSE d \in 1..10 : Digits[d] = c) - 1

AllDigits(s) == \A k \in 1..Len(s) : IsDigit(s[k])

\* the value of a string of decimal digits
RECURSIVE DecimalVal(_)
DecimalVal(s) ==
    IF s = <<>> THEN 0
    ELSE DecimalVal(SubSeq(s, 1, Len(s) - 1)) * 10 + DigitVal(s[Len(s)])

\* strconv.ParseInt(s, 10, 64): an optional sign, then one or more digits
ParseInt(s) ==
    LET signed == s # <<>> /\ s[1] \in {"+", "-"}
        body   == IF signed THEN Tail(s) ELSE s
    IN  IF body = <<>> \/ ~AllDigits(body)
        THEN [ok |-> FALSE, v |-> 0]
        ELSE [ok |-> TRUE,
              v  |-> IF signed /\ s[1] = "-" THEN 0 - DecimalVal(body)
                     ELSE DecimalVal(body)]

\* the decimal digits of a natural number
RECURSIVE NatString(_)
NatString(n) ==
    IF n < 10 THEN <<Digits[n + 1]>>
    ELSE NatString(n \div 10) \o <<Digits[(n % 10) + 1]>>

\* fmt's %v of an int
FormatInt(n) == IF n < 0 THEN <<"-">> \o NatString(0 - n) ELSE NatString(n)

\* the place of the first "." of s, or 0
DotAt(s) ==
    IF \E k \in 1..Len(s) : s[k] = "."
    THEN CHOOSE k \in 1..Len(s) : s[k] = "." /\ \A j \in 1..(k - 1) : s[j] # "."
    ELSE 0

\* strconv.ParseFloat(s, 64) on plain decimal literals: an optional sign,
\* digits, an optional "." and digits, at least one digit in all.  The value
\* is a number of tenths.
ParseFloat(s) ==
    LET signed == s # <<>> /\ s[1] \in {"+", "-"}
        body   == IF signed THEN Tail(s) ELSE s
        dot    == DotAt(body)
        ip     == IF dot = 0 THEN body ELSE SubSeq(body, 1, dot - 1)
        fp     == IF dot = 0 THEN <<>> ELSE SubSeq(body, dot + 1, Len(body))
        tenths == DecimalVal(ip) * 10 + (IF fp = <<>> THEN 0 ELSE DigitVal(fp[1]))
    IN  IF ~AllDigits(ip) \/ ~AllDigits(fp) \/ Len(ip) + Len(fp) = 0
        THEN [ok |-> FALSE, v |-> 0]
        ELSE [ok |-> TRUE,
              v  |-> IF signed /\ s[1] = "-" THEN 0 - tenths ELSE tenths]

\* fmt's %v of a float64: the shortest decimal that reads back the same
FormatFloat(t) ==
    LET a    == IF t < 0 THEN 0 - t ELSE t
        sign == IF t < 0 THEN <<"-">> ELSE <<>>
    IN  sign \o NatString(a \div 10)
             \o (IF a % 10 = 0 THEN <<>> ELSE <<".", Digits[(a % 10) + 1]>>)

TrueLiterals ==
    { <<"1">>, <<"t">>, <<"T">>, <<"T", "R", "U", "E">>,
      <<"t", "r", "u", "e">>, <<"T", "r", "u", "e">> }

FalseLiterals ==
    { <<"0">>, <<"f">>, <<"F">>, <<"F", "A", "L", "S", "E">>,
      <<"f", "a", "l", "s", "e">>, <<"F", "a", "l", "s", "e">> }

\* strconv.ParseBool
ParseBool(s) ==
    IF s \in TrueLiterals THEN [ok |-> TRUE, v |-> TRUE]
    ELSE IF s \in FalseLiterals THEN [ok |-> TRUE, v |-> FALSE]
    ELSE [ok |-> FALSE, v |-> FALSE]

\* fmt's %v of a bool
FormatBool(b) == IF b THEN <<"t", "r", "u", "e">> ELSE <<"f", "a", "l", "s", "e">>

(***************************************************************************)
(* Record types (reflect.Type) and record values (reflect.Value).          *)
(* A field is [name, csv, default, type]: its Go name, its csv tag and its *)
(* default tag (<<>> when the tag is not set) and its type.  A value is    *)
(* [s |-> chars], [i |-> int], [f |-> tenths], [b |-> bool], [u |-> nat],  *)
(* [st |-> <<field values>>] for a struct, [p |-> struct value] for a      *)
(* non-nil pointer and Nil for a nil pointer.                              *)
(***************************************************************************)
StringT == [kind |-> "string"]

IntT == [kind |-> "int"]

FloatT == [kind |-> "float64"]

BoolT == [kind |-> "bool"]

\* a kind getFieldSetter has no case for
UintT == [kind |-> "uint"]

StructT(fields) == [kind |-> "struct", fields |-> fields]

PtrT(t) == [kind |-> "ptr", elem |-> t]

Fld(name, csv, default, type) ==
    [name |-> name, csv |-> csv, default |-> default, type |-> type]

NumField(t) == Len(t.fields)

Nil == [nil |-> TRUE]

StrV(s) == [s |-> s]

IntV(n) == [i |-> n]

FloatV(t) == [f |-> t]

BoolV(b) == [b |-> b]

UintV(n) == [u |-> n]

StructV(fs) == [st |-> fs]

PtrV(v) == [p |-> v]

IsNil(v) == "nil" \in DOMAIN v

\* the kind of a value
KindOf(v) ==
    IF "s" \in DOMAIN v THEN "string"
    ELSE IF "i" \in DOMAIN v THEN "int"
    ELSE IF "f" \in DOMAIN v THEN "float64"
    ELSE IF "b" \in DOMAIN v THEN "bool"
    ELSE IF "u" \in DOMAIN v THEN "uint"
    ELSE IF "st" \in DOMAIN v THEN "struct"
    ELSE "ptr"

\* reflect.New(t).Elem(): the zero value of a type
RECURSIVE Zero(_)
Zero(t) ==
    CASE t.kind = "string"  -> StrV(<<>>)
      [] t.kind = "int"     -> IntV(0)
      [] t.kind = "float64" -> FloatV(0)
      [] t.kind = "bool"    -> BoolV(FALSE)
      [] t.kind = "uint"    -> UintV(0)
      [] t.kind = "struct"  -> StructV([k \in 1..NumField(t) |-> Zero(t.fields[k].type)])
      [] OTHER              -> Nil

RECURSIVE Flatten(_)
Flatten(ss) == IF ss = <<>> THEN <<>> ELSE Head(ss) \o Flatten(Tail(ss))

(***************************************************************************)
(* The record types of the tests, and others the claims need.              *)
(***************************************************************************)

\* csvutils_test.go: TestStruct
TestStruct ==
    StructT(<< Fld(<<"N", "a", "m", "e">>, <<"N", "a", "m", "e">>, <<>>, StringT),
               Fld(<<"A", "g", "e">>, <<"A", "g", "e">>, <<>>, IntT),
               Fld(<<"E", "m", "a", "i", "l">>, <<"E", "m", "a", "i", "l">>, <<>>, StringT) >>)

\* csvutils_read_test.go: Address
Address ==
    StructT(<< Fld(<<"S", "t", "r", "e", "e", "t">>, <<"s", "t", "r", "e", "e", "t">>, <<>>, StringT),
               Fld(<<"C", "i", "t", "y">>, <<"c", "i", "t", "y">>, <<>>, StringT) >>)

\* csvutils_read_test.go: Person
Person ==
    StructT(<< Fld(<<"N", "a", "m", "e">>, <<"n", "a", "m", "e">>, <<>>, StringT),
               Fld(<<"A", "g", "e">>, <<"a", "g", "e">>, <<>>, IntT),
               Fld(<<"A", "d", "d", "r", "e", "s", "s">>, <<"a", "d", "d", "r", "e", "s", "s">>, <<>>, Address) >>)

\* csvutils_read_test.go: PersonPtr
PersonPtr ==
    StructT(<< Fld(<<"N", "a", "m", "e">>, <<"n", "a", "m", "e">>, <<>>, StringT),
               Fld(<<"A", "g", "e">>, <<"a", "g", "e">>, <<>>, IntT),
               Fld(<<"A", "d", "d", "r", "e", "s", "s">>, <<"a", "d", "d", "r", "e", "s", "s">>, <<>>, PtrT(Address)) >>)

\* a type with default tags and one leaf of each supported kind; Note has no
\* csv tag, so its column is named after the field
Tagged ==
    StructT(<< Fld(<<"N", "a", "m", "e">>, <<"n", "a", "m", "e">>, <<"a", "n", "o", "n">>, StringT),
               Fld(<<"A", "g", "e">>, <<"a", "g", "e">>, <<"7">>, IntT),
               Fld(<<"O", "k">>, <<"o", "k">>, <<>>, BoolT),
               Fld(<<"S", "c", "o", "r", "e">>, <<"s", "c", "o", "r", "e">>, <<"1", ".", "5">>, FloatT),
               Fld(<<"N", "o", "t", "e">>, <<>>, <<>>, StringT) >>)

\* a type whose default tag does not parse as the field's kind
BadDefault ==
    StructT(<< Fld(<<"N", "a", "m", "e">>, <<"n", "a", "m", "e">>, <<>>, StringT),
               Fld(<<"Q", "t", "y">>, <<"a", "g", "e">>, <<"x">>, IntT) >>)

\* a type with a leaf of an unsupported kind
Unsupported ==
    StructT(<< Fld(<<"N", "a", "m", "e">>, <<"n", "a", "m", "e">>, <<>>, StringT),
               Fld(<<"C", "o", "u", "n", "t">>, <<"c", "o", "u", "n", "t">>, <<>>, UintT) >>)

\* a type with a leaf of an unsupported kind in an optional sub-record
Wrapped ==
    StructT(<< Fld(<<"I", "d">>, <<"i", "d">>, <<>>, IntT),
               Fld(<<"I", "n">>, <<"i", "n">>, <<>>, PtrT(Unsupported)) >>)

\* a type of one column
Single == StructT(<< Fld(<<"N", "o", "t", "e">>, <<>>, <<>>, StringT) >>)

\* an optional sub-record that itself holds a sub-record
Mid ==
    StructT(<< Fld(<<"A">>, <<"a">>, <<>>, IntT),
               Fld(<<"S", "u", "b">>, <<"s", "u", "b">>, <<>>, Address) >>)

Outer ==
    StructT(<< Fld(<<"I", "d">>, <<"i", "d">>, <<>>, IntT),
               Fld(<<"I", "n", "n", "e", "r">>, <<"i", "n", "n", "e", "r">>, <<>>, PtrT(Mid)) >>)

\* leaves four struct levels deep, in an optional sub-record
Deep4 ==
    StructT(<< Fld(<<"X">>, <<"x">>, <<"d">>, StringT),
               Fld(<<"Y">>, <<"y">>, <<>>, StringT) >>)

Deep3 == StructT(<< Fld(<<"C">>, <<"c">>, <<>>, PtrT(Deep4)) >>)

Deep2 == StructT(<< Fld(<<"B">>, <<"b">>, <<>>, Deep3) >>)

Deep ==
    StructT(<< Fld(<<"I", "d">>, <<"i", "d">>, <<>>, StringT),
               Fld(<<"A">>, <<"a">>, <<>>, Deep2) >>)

ShapeNames ==
    { "TestStruct", "Person", "PersonPtr", "Tagged", "BadDefault",
      "Unsupported", "Wrapped", "Single", "Outer", "Deep", "int" }

\* the type a name stands for; "int" is a record type that is no struct
ShapeType(n) ==
    CASE n = "TestStruct"  -> TestStruct
      [] n = "Person"      -> Person
      [] n = "PersonPtr"   -> PersonPtr
      [] n = "Tagged"      -> Tagged
      [] n = "BadDefault"  -> BadDefault
      [] n = "Unsupported" -> Unsupported
      [] n = "Wrapped"     -> Wrapped
      [] n = "Single"      -> Single
      [] n = "Outer"       -> Outer
      [] n = "Deep"        -> Deep
      [] OTHER             -> IntT

\* the records WriteCSV is given, by type
Samples(n) ==
    CASE n = "TestStruct" ->
           << StructV(<<StrV(<<"J", "o", "h", "n">>), IntV(30), StrV(<<"a">>)>>),
              StructV(<<StrV(<<"J", "a", "n", "e">>), IntV(-5), StrV(<<>>)>>) >>
      [] n = "Person" ->
           << StructV(<<StrV(<<"J", "o", "h", "n">>), IntV(30), StructV(<<StrV(<<"M", "a", "i", "n">>), StrV(<<"N", "Y">>)>>)>>),
              StructV(<<StrV(<<"J", "a", "n", "e">>), IntV(25), StructV(<<StrV(<<"E", "l", "m">>), StrV(<<"B", "o", "s">>)>>)>>) >>
      [] n = "PersonPtr" ->
           << StructV(<<StrV(<<"J", "o", "h", "n">>), IntV(30), PtrV(StructV(<<StrV(<<"M", "a", "i", "n">>), StrV(<<"N", "Y">>)>>))>>),
              StructV(<<StrV(<<"J", "a", "n", "e">>), IntV(25), Nil>>) >>
      [] n = "Tagged" ->
           << StructV(<<StrV(<<"J", "o", "h", "n">>), IntV(0), BoolV(TRUE), FloatV(-25), StrV(<<"a">>)>>),
              StructV(<<StrV(<<>>), IntV(7), BoolV(FALSE), FloatV(0), StrV(<<>>)>>) >>
      [] n = "Unsupported" ->
           << StructV(<<StrV(<<"J", "o", "h", "n">>), UintV(3)>>) >>
      [] n = "Wrapped" ->
           << StructV(<<IntV(1), PtrV(StructV(<<StrV(<<"J", "o", "h", "n">>), UintV(3)>>))>>) >>
      [] n = "Single" ->
           << StructV(<<StrV(<<"a">>)>>), StructV(<<StrV(<<>>)>>) >>
      [] n = "Outer" ->
           << StructV(<<IntV(1), PtrV(StructV(<<IntV(2), StructV(<<StrV(<<"M", "a", "i", "n">>), StrV(<<"N", "Y">>)>>)>>))>>),
              StructV(<<IntV(3), Nil>>) >>
      [] n = "Deep" ->
           << StructV(<<StrV(<<"a">>),
                        StructV(<<StructV(<<PtrV(StructV(<<StrV(<<"x">>), StrV(<<"y">>)>>))>>)>>)>>),
              StructV(<<StrV(<<"a">>), StructV(<<StructV(<<Nil>>)>>)>>) >>
      [] n = "int" -> << IntV(5) >>
      [] OTHER -> <<>>

(***************************************************************************)
(* The file, as encoding/csv writes and reads it: a sequence of lines,     *)
(* each a sequence of cells.  csv.Writer writes a record of one empty      *)
(* field as an empty line, and csv.Reader skips empty lines.               *)
(***************************************************************************)
NoFile == [exists |-> FALSE, lines |-> <<>>]

BlankLine == <<>>

\* csv.Writer.Write: the line a record becomes
csvWrite(record) == IF record = << <<>> >> THEN BlankLine ELSE record

\* openOrCreateFile, had it created the file anew whether or not it exists
openOrCreateFileTruncates(f) == [exists |-> TRUE, lines |-> <<>>]

\* osutils.go: the file opened for append when it exists, created otherwise
openOrCreateFile(f) ==
    IF f.exists THEN f ELSE [exists |-> TRUE, lines |-> <<>>]

(***************************************************************************)
(* WriteCSV.                                                               *)
(***************************************************************************)
\* fmt.Sprintf("%v", field.Interface())
FormatValue(v) ==
    CASE KindOf(v) = "string"  -> v.s
      [] KindOf(v) = "int"     -> FormatInt(v.i)
      [] KindOf(v) = "float64" -> FormatFloat(v.f)
      [] KindOf(v) = "bool"    -> FormatBool(v.b)
      [] OTHER                 -> NatString(v.u)

\* extractHeaders, had a nested field's columns been named without the
\* names of its ancestors
RECURSIVE extractHeadersLeafNames(_, _)
extractHeadersLeafNames(t, prefix) ==
    Flatten([i \in 1..NumField(t) |->
        LET field      == t.fields[i]
            csvTag     == IF field.csv = <<>> THEN field.name ELSE field.csv
            fieldType  == IF field.type.kind = "ptr" THEN field.type.elem
                          ELSE field.type
        IN  IF fieldType.kind = "struct"
            THEN extractHeadersLeafNames(fieldType, prefix)
            ELSE <<prefix \o csvTag>>])

RECURSIVE extractHeaders(_, _)
extractHeaders(t, prefix) ==
    Flatten([i \in 1..NumField(t) |->
        LET field      == t.fields[i]
            csvTag     == IF field.csv = <<>> THEN field.name ELSE field.csv
            headerName == prefix \o csvTag
            fieldType  == IF field.type.kind = "ptr" THEN field.type.elem
                          ELSE field.type
        IN  IF fieldType.kind = "struct"
            THEN extractHeaders(fieldType, headerName \o <<"_">>)
            ELSE <<headerName>>])

\* extractValues, had it written one empty value for each column of a nil
\* sub-record rather than for each of its fields
RECURSIVE extractValuesPerColumn(_, _)
extractValuesPerColumn(t, v) ==
    Flatten([i \in 1..NumField(t) |->
        LET ft == t.fields[i].type
        IN  IF ft.kind = "ptr" /\ IsNil(v.st[i])
            THEN [j \in 1..Len(extractHeaders(ft.elem, <<>>)) |-> <<>>]
            ELSE LET field == IF ft.kind = "ptr" THEN v.st[i].p ELSE v.st[i]
                     ftype == IF ft.kind = "ptr" THEN ft.elem ELSE ft
                 IN  IF KindOf(field) = "struct"
                     THEN extractValuesPerColumn(ftype, field)
                     ELSE <<FormatValue(field)>>])

RECURSIVE extractValues(_, _)
extractValues(t, v) ==
    Flatten([i \in 1..NumField(t) |->
        LET ft == t.fields[i].type
        IN  IF ft.kind = "ptr" /\ IsNil(v.st[i])
            THEN \* one empty value for each field of the struct
                 [j \in 1..NumField(ft.elem) |-> <<>>]
            ELSE LET field == IF ft.kind = "ptr" THEN v.st[i].p ELSE v.st[i]
                     ftype == IF ft.kind = "ptr" THEN ft.elem ELSE ft
                 IN  IF KindOf(field) = "struct"
                     THEN extractValues(ftype, field)
                     ELSE <<FormatValue(field)>>])

\* WriteCSV, had the file been opened before the records were looked at
WriteCSVOpensFirst(f, elemType, records) ==
    LET opened == openOrCreateFile(f)
    IN  IF Len(records) = 0
        THEN [file |-> opened, err |-> "no records to write", opened |-> TRUE]
        ELSE IF elemType.kind # "struct"
        THEN [file |-> opened, err |-> "records elements must be struct",
              opened |-> TRUE]
        ELSE [file |-> [opened EXCEPT !.lines =
                           @ \o <<csvWrite(extractHeaders(elemType, <<>>))>>
                             \o [k \in 1..Len(records) |->
                                   csvWrite(extractValues(elemType, records[k]))]],
              err    |-> "nil",
              opened |-> TRUE]

\* WriteCSV(filePath, records) on the file f: the file it leaves, the error
\* it returns ("nil" for none), and whether it called openOrCreateFile
WriteCSV(f, elemType, records) ==
    IF Len(records) = 0
    THEN [file |-> f, err |-> "no records to write", opened |-> FALSE]
    ELSE LET opened == openOrCreateFile(f)
         IN  IF elemType.kind # "struct"
             THEN [file |-> opened, err |-> "records elements must be struct",
                   opened |-> TRUE]
             ELSE [file |-> [opened EXCEPT !.lines =
                                @ \o <<csvWrite(extractHeaders(elemType, <<>>))>>
                                  \o [k \in 1..Len(records) |->
                                        csvWrite(extractValues(elemType, records[k]))]],
                   err    |-> "nil",
                   opened |-> TRUE]

(***************************************************************************)
(* ReadCSV: options, resolution of the record type against the header.     *)
(***************************************************************************)
WithHandler(h) == [opt |-> "handler", handler |-> h, concurrency |-> 0]

WithConcurrency(n) == [opt |-> "concurrency", handler |-> "nil", concurrency |-> n]

RECURSIVE applyOptions(_, _)
applyOptions(opts, options) ==
    IF options = <<>> THEN opts
    ELSE LET o == Head(options)
         IN  applyOptions(IF o.opt = "handler"
                          THEN [opts EXCEPT !.handler = o.handler]
                          ELSE [opts EXCEPT !.concurrency = o.concurrency],
                          Tail(options))

newCsvOptions(options) ==
    applyOptions([handler |-> "nil", concurrency |-> 1], options)

\* the place of the next line of the file at or after pos that is not empty,
\* or 0 at the end of the file
NextLine(lines, pos) ==
    IF \E k \in pos..Len(lines) : lines[k] # BlankLine
    THEN CHOOSE k \in pos..Len(lines) :
            lines[k] # BlankLine /\ \A j \in pos..(k - 1) : lines[j] = BlankLine
    ELSE 0

\* columnIndex[header] = i over the header row: the last column of a name
ColumnIndex(headers) ==
    [h \in {headers[k] : k \in 1..Len(headers)} |->
        (CHOOSE k \in 1..Len(headers) :
            headers[k] = h /\ \A j \in (k + 1)..Len(headers) : headers[j] # h) - 1]

\* A slice of ints is [arr, len, cap]: a backing array of the heap (a
\* sequence of arrays), a length and a capacity.
EmptySlice == [arr |-> 0, len |-> 0, cap |-> 0]

SliceElems(heap, s) == [k \in 1..s.len |-> heap[s.arr][k]]

\* the capacity append grows a slice of ints to
GrowCap(cap, need) == IF need > 2 * cap THEN need ELSE 2 * cap

\* append(s, x): in place when the capacity allows, else into a new array
AppendInt(heap, s, x) ==
    IF s.len < s.cap
    THEN [heap  |-> [heap EXCEPT ![s.arr][s.len + 1] = x],
          slice |-> [s EXCEPT !.len = @ + 1]]
    ELSE LET nc == GrowCap(s.cap, s.len + 1)
         IN  [heap  |-> Append(heap, [k \in 1..nc |->
                                  IF k <= s.len THEN heap[s.arr][k]
                                  ELSE IF k = s.len + 1 THEN x ELSE 0]),
              slice |-> [arr |-> Len(heap) + 1, len |-> s.len + 1, cap |-> nc]]

SupportedKinds == {"string", "int", "float64", "bool"}

\* getFieldSetter, had it given a field of another kind the setter of a
\* string
getFieldSetterForAnyKind(fieldType) ==
    [err    |-> "nil",
     setter |-> IF fieldType.kind \in SupportedKinds THEN fieldType.kind
                ELSE "string"]

\* getFieldSetter: the setter of a kind (named by the kind), or an error
getFieldSetter(fieldType) ==
    IF fieldType.kind \in SupportedKinds
    THEN [err |-> "nil", setter |-> fieldType.kind]
    ELSE [err |-> "unsupported field type", setter |-> "none"]

\* buildFieldInfo from field i of elemType on, fieldInfos being the bindings
\* built so far: [err, infos, heap]
RECURSIVE buildFieldInfoFrom(_, _, _, _, _, _, _)
buildFieldInfoFrom(elemType, columnIndex, parentTag, parentFieldIndex, i, fieldInfos, heap) ==
    IF i > NumField(elemType)
    THEN [err |-> "nil", infos |-> fieldInfos, heap |-> heap]
    ELSE LET field     == elemType.fields[i]
             tag       == IF field.csv = <<>> THEN field.name ELSE field.csv
             csvTag    == IF parentTag # <<>> THEN parentTag \o <<"_">> \o tag ELSE tag
             ap        == AppendInt(heap, parentFieldIndex, i - 1)
             fieldType == IF field.type.kind = "ptr" THEN field.type.elem
                          ELSE field.type
         IN  IF fieldType.kind = "struct"
             THEN LET nested == buildFieldInfoFrom(fieldType, columnIndex, csvTag,
                                                   ap.slice, 1, <<>>, ap.heap)
                  IN  IF nested.err # "nil"
                      THEN [err |-> nested.err, infos |-> <<>>, heap |-> nested.heap]
                      ELSE buildFieldInfoFrom(elemType, columnIndex, parentTag,
                                              parentFieldIndex, i + 1,
                                              fieldInfos \o nested.infos, nested.heap)
             ELSE LET index  == IF csvTag \in DOMAIN columnIndex
                                THEN columnIndex[csvTag] ELSE -1
                      setter == getFieldSetter(field.type)
                  IN  IF setter.err # "nil"
                      THEN [err |-> setter.err, infos |-> <<>>, heap |-> ap.heap]
                      ELSE buildFieldInfoFrom(elemType, columnIndex, parentTag,
                               parentFieldIndex, i + 1,
                               Append(fieldInfos,
                                      [fieldName    |-> field.name,
                                       csvTag       |-> csvTag,
                                       index        |-> ap.slice,
                                       columnIndex  |-> index,
                                       setter       |-> setter.setter,
                                       defaultValue |-> field.default]),
                               ap.heap)

buildFieldInfo(elemType, columnIndex, parentTag, parentFieldIndex) ==
    buildFieldInfoFrom(elemType, columnIndex, parentTag, parentFieldIndex, 1, <<>>, <<>>)

(***************************************************************************)
(* ReadCSV: one row made into a record.                                    *)
(***************************************************************************)
RECURSIVE initNestedPointers(_, _)
initNestedPointers(t, v) ==
    LET isPtr == t.kind = "ptr"
        tt    == IF isPtr THEN t.elem ELSE t
        vv    == IF isPtr THEN (IF IsNil(v) THEN Zero(t.elem) ELSE v.p) ELSE v
        w     == IF tt.kind = "struct"
                 THEN StructV([k \in 1..NumField(tt) |->
                                 initNestedPointers(tt.fields[k].type, vv.st[k])])
                 ELSE vv
    IN  IF isPtr THEN PtrV(w) ELSE w

Deref(v) == IF KindOf(v) = "ptr" /\ ~IsNil(v) THEN v.p ELSE v

\* reflect.Value.FieldByIndex, then the Elem() of a pointer: the value a
\* field path (0-based) leads to
RECURSIVE FieldByIndex(_, _)
FieldByIndex(v, index) ==
    IF index = <<>> THEN Deref(v)
    ELSE FieldByIndex(Deref(v).st[Head(index) + 1], Tail(index))

\* v with the value at a field path set to x
RECURSIVE SetByIndex(_, _, _)
SetByIndex(v, index, x) ==
    IF KindOf(v) = "ptr" THEN PtrV(SetByIndex(v.p, index, x))
    ELSE IF index = <<>> THEN x
    ELSE StructV([v.st EXCEPT ![Head(index) + 1] = SetByIndex(@, Tail(index), x)])

\* the string a setter of getFieldSetter parses (or sets, for a string) when
\* given s: an empty s is made "0" or "false" first
SetterLiteral(setter, s) ==
    IF s # <<>> \/ setter = "string" THEN s
    ELSE IF setter = "bool" THEN <<"f", "a", "l", "s", "e">>
    ELSE <<"0">>

\* a setter of getFieldSetter on the string s: [err, v].  Setting a value of
\* another kind than the setter's panics.
ApplySetter(setter, kind, s) ==
    LET lit == SetterLiteral(setter, s)
    IN  CASE setter = "string" ->
               IF kind # "string" THEN [err |-> "panic", v |-> Nil]
               ELSE [err |-> "nil", v |-> StrV(lit)]
          [] setter = "int" ->
               LET r == ParseInt(lit)
               IN  IF ~r.ok THEN [err |-> "error parsing int value", v |-> Nil]
                   ELSE IF kind # "int" THEN [err |-> "panic", v |-> Nil]
                   ELSE [err |-> "nil", v |-> IntV(r.v)]
          [] setter = "float64" ->
               LET r == ParseFloat(lit)
               IN  IF ~r.ok THEN [err |-> "error parsing float value", v |-> Nil]
                   ELSE IF kind # "float64" THEN [err |-> "panic", v |-> Nil]
                   ELSE [err |-> "nil", v |-> FloatV(r.v)]
          [] OTHER ->
               LET r == ParseBool(lit)
               IN  IF ~r.ok THEN [err |-> "error parsing bool value", v |-> Nil]
                   ELSE IF kind # "bool" THEN [err |-> "panic", v |-> Nil]
                   ELSE [err |-> "nil", v |-> BoolV(r.v)]

\* CellValue, had the default tag been taken before the cell was looked at
CellValueDefaultFirst(record, info) ==
    LET value == IF info.columnIndex >= 0 /\ info.columnIndex < Len(record)
                 THEN record[info.columnIndex + 1] ELSE <<>>
    IN  IF info.defaultValue # <<>> THEN info.defaultValue ELSE value

\* the string a binding hands to its setter for a row
CellValue(record, info) ==
    LET value == IF info.columnIndex >= 0 /\ info.columnIndex < Len(record)
                 THEN record[info.columnIndex + 1] ELSE <<>>
    IN  IF value = <<>> THEN info.defaultValue ELSE value

\* the loop of processRecord over the bindings from k on: [err, field, rec,
\* parsed], field being the field name the error message holds and parsed
\* the strings the setters called so far parsed, in order
RECURSIVE setFields(_, _, _, _, _, _)
setFields(record, fieldInfo, heap, k, recordValue, parsed) ==
    IF k > Len(fieldInfo)
    THEN [err |-> "nil", field |-> <<>>, rec |-> recordValue, parsed |-> parsed]
    ELSE LET info  == fieldInfo[k]
             index == SliceElems(heap, info.index)
             value == CellValue(record, info)
             r     == ApplySetter(info.setter,
                                  KindOf(FieldByIndex(recordValue, index)), value)
             seen  == Append(parsed, SetterLiteral(info.setter, value))
         IN  IF r.err # "nil"
             THEN [err   |-> IF r.err = "panic" THEN "panic"
                             ELSE "failed to set field value",
                   field |-> IF r.err = "panic" THEN <<>> ELSE info.fieldName,
                   rec   |-> recordValue, parsed |-> seen]
             ELSE setFields(record, fieldInfo, heap, k + 1,
                            SetByIndex(recordValue, index, r.v), seen)

\* the handler's answer to the record of a row: "fail" is a handler that
\* rejects the record of the first row
HandlerError(handler, recordNum) == handler = "fail" /\ recordNum = 1

\* processRecord on a task: [err, field, called, rec, parsed], called telling
\* whether the handler was invoked with rec
processRecord(task, elemType, fieldInfo, heap, handler) ==
    LET recordValue == initNestedPointers(elemType, Zero(elemType))
        r           == setFields(task.record, fieldInfo, heap, 1, recordValue, <<>>)
    IN  IF r.err # "nil"
        THEN [err |-> r.err, field |-> r.field, called |-> FALSE, rec |-> r.rec,
              parsed |-> r.parsed]
        ELSE IF handler = "nil"
        THEN [err |-> "nil", field |-> <<>>, called |-> FALSE, rec |-> r.rec,
              parsed |-> r.parsed]
        ELSE [err    |-> IF HandlerError(handler, task.recordNum)
                         THEN "handler error" ELSE "nil",
              field  |-> <<>>,
              called |-> TRUE,
              rec    |-> r.rec,
              parsed |-> r.parsed]

(***************************************************************************)
(* Files that exist before the first call: those of the tests and of the   *)
(* spec's scenarios, a file with empty cells and other spellings of the    *)
(* values, a file with a cell that does not parse, an empty line and a     *)
(* short row, a file for Deep without the column of X, a file whose only    *)
(* fault is a cell that does not parse, and an empty file.                 *)
(***************************************************************************)
NestedFile ==
    [exists |-> TRUE, lines |-> <<<< <<"n", "a", "m", "e">>, <<"a", "g", "e">>, <<"a", "d", "d", "r", "e", "s", "s", "_", "s", "t", "r", "e", "e", "t">>, <<"a", "d", "d", "r", "e", "s", "s", "_", "c", "i", "t", "y">> >>,
         << <<"J", "o", "h", "n">>, <<"3", "0">>, <<"M", "a", "i", "n">>, <<"N", "Y">> >>,
         << <<"J", "a", "n", "e">>, <<"2", "5">>, <<"E", "l", "m">>, <<"B", "o", "s">> >> >>]

DefaultsFile ==
    [exists |-> TRUE, lines |-> <<<< <<"N", "a", "m", "e">>, <<"A", "g", "e">>, <<"E", "m", "a", "i", "l">> >>,
         << <<"J", "o", "h", "n">>, <<>>, <<"a">> >>,
         << <<"J", "a", "n", "e">>, <<"3", "5">>, <<>> >> >>]

MissingFile ==
    [exists |-> TRUE, lines |-> <<<< <<"n", "a", "m", "e">>, <<"a", "d", "d", "r", "e", "s", "s", "_", "c", "i", "t", "y">> >>,
         << <<"J", "o", "h", "n">>, <<"N", "Y">> >>,
         << <<"J", "a", "n", "e">>, <<"B", "o", "s">> >> >>]

TaggedFile ==
    [exists |-> TRUE, lines |-> <<<< <<"n", "a", "m", "e">>, <<"a", "g", "e">>, <<"o", "k">>, <<"s", "c", "o", "r", "e">> >>,
         << <<>>, <<>>, <<>>, <<>> >>,
         << <<"J", "o", "h", "n">>, <<"+", "4">>, <<"T">>, <<".", "5">> >> >>]

BrokenFile ==
    [exists |-> TRUE, lines |-> <<<< <<"n", "a", "m", "e">>, <<"a", "g", "e">> >>,
         << <<"J", "o", "h", "n">>, <<"3", "0">> >>,
         << <<"J", "a", "n", "e">>, <<"a", "b", "c">> >>,
         BlankLine,
         << <<"J", "o", "h", "n">>, <<"2", "5">> >>,
         << <<"J", "a", "n", "e">> >>,
         << <<"J", "a", "n", "e">>, <<"2", "5">> >> >>]

DeepFile ==
    [exists |-> TRUE, lines |-> << << <<"i", "d">>, <<"a", "_", "b", "_", "c", "_", "y">> >>,
         << <<"a">>, <<"y">> >> >>]

BadCellFile ==
    [exists |-> TRUE, lines |-> <<<< <<"n", "a", "m", "e">>, <<"a", "g", "e">> >>,
         << <<"J", "o", "h", "n">>, <<"3", "0">> >>,
         << <<"J", "a", "n", "e">>, <<"a", "b", "c">> >> >>]

EmptyFile == [exists |-> TRUE, lines |-> <<>>]

InitialFiles ==
    { NoFile, NestedFile, DefaultsFile, MissingFile, TaggedFile, BrokenFile,
      DeepFile, BadCellFile, EmptyFile }

\* the record sequences given to WriteCSV, as places in Samples(n)
RecordChoices(n) ==
    UNION { [1..len -> 1..Len(Samples(n))] : len \in 0..MaxRecords }

RecordsOf(n, choice) == [k \in 1..Len(choice) |-> Samples(n)[choice[k]]]

\* the options given to ReadCSV: none, a handler, a handler and a concurrency
\* of 1 or more (what the pool of github.com/vd09/gr_worker does of a
\* concurrency below 1 is not in this repository)
OptionChoices ==
    { <<>>, <<WithHandler("ok")>>, <<WithHandler("fail")>> }
    \cup { <<WithHandler(h), WithConcurrency(n)>> :
             h \in {"ok", "fail"}, n \in 1..MaxConcurrency }

(***************************************************************************)
(* The state.                                                              *)
(***************************************************************************)
VARIABLES
    file,          \* the file at filePath
    calls,         \* the WriteCSV calls made: [shape, records, err, opened,
                   \* before]
    pc,            \* ReadCSV: "idle", "loop", "draining" (the deferred
                   \* WaitAndStop), "done" (returned)
    readShape,     \* the record type given to ReadCSV
    csvOptions,    \* newCsvOptions(options)
    fieldInfo,     \* the bindings buildFieldInfo returned
    heap,          \* the backing arrays of the bindings' field paths
    pos,           \* the reader's place: the next line of the file
    recordNum,     \* the loop's row counter
    queue,         \* the pool's tasks not yet taken by a worker
    workers,       \* the task each worker runs, or NoTask
    submitted,     \* the rows given to pool.AddTask so far, in order
    completed,     \* the tasks run so far: [recordNum, err, field, called,
                   \* rec, parsed]
    result         \* the error ReadCSV returns ("nil" for none)

vars ==
    << file, calls, pc, readShape, csvOptions, fieldInfo, heap, pos, recordNum,
       queue, workers, submitted, completed, result >>

readVars ==
    << pc, readShape, csvOptions, fieldInfo, heap, pos, recordNum,
       queue, workers, submitted, completed, result >>

NoTask == [recordNum |-> 0, record |-> <<>>]

Init ==
    /\ file \in InitialFiles
    /\ calls = <<>>
    /\ pc = "idle"
    /\ readShape = "int"
    /\ csvOptions = newCsvOptions(<<>>)
    /\ fieldInfo = <<>>
    /\ heap = <<>>
    /\ pos = 1
    /\ recordNum = 1
    /\ queue = <<>>
    /\ workers = [w \in 1..MaxConcurrency |-> NoTask]
    /\ submitted = <<>>
    /\ completed = <<>>
    /\ result = "nil"

(***************************************************************************)
(* WriteCSV(filePath, records), as one step.  The calls are made on a path *)
(* that is fresh or was written by the calls before, with records of one   *)
(* type.                                                                   *)
(***************************************************************************)
WriteCSVCall(n, choice) ==
    /\ pc = "idle"
    /\ Len(calls) < MaxWrites
    /\ IF calls = <<>> THEN file = NoFile ELSE calls[1].shape = n
    /\ LET w == WriteCSV(file, ShapeType(n), RecordsOf(n, choice))
       IN  /\ file' = w.file
           /\ calls' = Append(calls, [shape   |-> n,
                                      records |-> RecordsOf(n, choice),
                                      err     |-> w.err,
                                      opened  |-> w.opened,
                                      before  |-> file])
    /\ UNCHANGED readVars

(***************************************************************************)
(* ReadCSV(filePath, recordType, options...): of a file that was there, or *)
(* of the file one WriteCSV call wrote, with the type of its records.      *)
(***************************************************************************)
\* ReadCSV up to its loop: the options, the pool and its deferred
\* WaitAndStop, the file, the header row, the bindings.  [err, infos, heap,
\* pos]: the error it returns with, or "nil" and the loop's start.
ReadCSVSetup(f, elemType) ==
    LET h == NextLine(f.lines, 1)
    IN  IF ~f.exists
        THEN [err |-> "failed to open file", infos |-> <<>>, heap |-> <<>>, pos |-> 1]
        ELSE IF h = 0
        THEN [err |-> "failed to read header", infos |-> <<>>, heap |-> <<>>, pos |-> 1]
        ELSE IF elemType.kind # "struct"
        THEN [err |-> "recordType must be a pointer to a struct",
              infos |-> <<>>, heap |-> <<>>, pos |-> h + 1]
        ELSE LET b == buildFieldInfo(elemType, ColumnIndex(f.lines[h]), <<>>, EmptySlice)
             IN  IF b.err # "nil"
                 THEN [err |-> "failed to build field info",
                       infos |-> <<>>, heap |-> <<>>, pos |-> h + 1]
                 ELSE [err |-> "nil", infos |-> b.infos, heap |-> b.heap, pos |-> h + 1]

\* the number of fields csv.Reader holds every row to: that of the first row
FieldsPerRecord == Len(file.lines[NextLine(file.lines, 1)])

ReadCSVStart(n, options) ==
    /\ pc = "idle"
    /\ Len(calls) <= 1
    /\ calls # <<>> => n = calls[1].shape
    /\ LET s == ReadCSVSetup(file, ShapeType(n))
       IN  /\ readShape' = n
           /\ csvOptions' = newCsvOptions(options)
           /\ fieldInfo' = s.infos
           /\ heap' = s.heap
           /\ pos' = s.pos
           /\ result' = s.err
           /\ pc' = IF s.err = "nil" THEN "loop" ELSE "draining"
    /\ UNCHANGED << file, calls, recordNum, queue, workers, submitted, completed >>

\* ReadRow, had the error of a row been returned with no WaitAndStop deferred
ReadRowReturnsAtOnce ==
    /\ pc = "loop"
    /\ LET k == NextLine(file.lines, pos)
       IN  IF k = 0
           THEN /\ pc' = "draining"
                /\ UNCHANGED << pos, recordNum, queue, submitted, result >>
           ELSE IF Len(file.lines[k]) # FieldsPerRecord
           THEN /\ pc' = "done"
                /\ result' = "failed to read record"
                /\ pos' = k + 1
                /\ UNCHANGED << recordNum, queue, submitted >>
           ELSE /\ queue' = Append(queue, [recordNum |-> recordNum,
                                           record    |-> file.lines[k]])
                /\ submitted' = Append(submitted, file.lines[k])
                /\ recordNum' = recordNum + 1
                /\ pos' = k + 1
                /\ UNCHANGED << pc, result >>
    /\ UNCHANGED << file, calls, readShape, csvOptions, fieldInfo, heap,
                    workers, completed >>

\* ReadRow, had a row that cannot be read been passed over
ReadRowSkipsBadRow ==
    /\ pc = "loop"
    /\ LET k == NextLine(file.lines, pos)
       IN  IF k = 0
           THEN /\ pc' = "draining"
                /\ UNCHANGED << pos, recordNum, queue, submitted, result >>
           ELSE IF Len(file.lines[k]) # FieldsPerRecord
           THEN /\ pos' = k + 1
                /\ UNCHANGED << pc, result, recordNum, queue, submitted >>
           ELSE /\ queue' = Append(queue, [recordNum |-> recordNum,
                                           record    |-> file.lines[k]])
                /\ submitted' = Append(submitted, file.lines[k])
                /\ recordNum' = recordNum + 1
                /\ pos' = k + 1
                /\ UNCHANGED << pc, result >>
    /\ UNCHANGED << file, calls, readShape, csvOptions, fieldInfo, heap,
                    workers, completed >>

\* one turn of the loop: reader.Read(), then the end of the loop at the end
\* of the file, the return of a row's error, or pool.AddTask
ReadRow ==
    /\ pc = "loop"
    /\ LET k == NextLine(file.lines, pos)
       IN  IF k = 0
           THEN /\ pc' = "draining"
                /\ UNCHANGED << pos, recordNum, queue, submitted, result >>
           ELSE IF Len(file.lines[k]) # FieldsPerRecord
           THEN /\ pc' = "draining"
                /\ result' = "failed to read record"
                /\ pos' = k + 1
                /\ UNCHANGED << recordNum, queue, submitted >>
           ELSE /\ queue' = Append(queue, [recordNum |-> recordNum,
                                           record    |-> file.lines[k]])
                /\ submitted' = Append(submitted, file.lines[k])
                /\ recordNum' = recordNum + 1
                /\ pos' = k + 1
                /\ UNCHANGED << pc, result >>
    /\ UNCHANGED << file, calls, readShape, csvOptions, fieldInfo, heap,
                    workers, completed >>

(***************************************************************************)
(* The worker pool: csvOptions.concurrency workers, each taking the oldest *)
(* task and running it; WaitAndStop returns when no task is left or        *)
(* running.                                                                *)
(***************************************************************************)
WorkerTake(w) ==
    /\ pc \in {"loop", "draining"}
    /\ w <= csvOptions.concurrency
    /\ workers[w] = NoTask
    /\ queue # <<>>
    /\ workers' = [workers EXCEPT ![w] = Head(queue)]
    /\ queue' = Tail(queue)
    /\ UNCHANGED << file, calls, pc, readShape, csvOptions, fieldInfo, heap, pos,
                    recordNum, submitted, completed, result >>

\* WorkerRun, had the reader reused one record buffer for every row: the
\* task sees the row read last
WorkerRunSharedRow(w) ==
    /\ workers[w] # NoTask
    /\ LET r == processRecord([workers[w] EXCEPT !.record = submitted[Len(submitted)]],
                              ShapeType(readShape), fieldInfo, heap, csvOptions.handler)
       IN  completed' = Append(completed, [recordNum |-> workers[w].recordNum,
                                           err       |-> r.err,
                                           field     |-> r.field,
                                           called    |-> r.called,
                                           rec       |-> r.rec,
                                           parsed    |-> r.parsed])
    /\ workers' = [workers EXCEPT ![w] = NoTask]
    /\ UNCHANGED << file, calls, pc, readShape, csvOptions, fieldInfo, heap, pos,
                    recordNum, queue, submitted, result >>

\* a worker runs processRecord on its task
WorkerRun(w) ==
    /\ workers[w] # NoTask
    /\ LET r == processRecord(workers[w], ShapeType(readShape), fieldInfo, heap,
                              csvOptions.handler)
       IN  completed' = Append(completed, [recordNum |-> workers[w].recordNum,
                                           err       |-> r.err,
                                           field     |-> r.field,
                                           called    |-> r.called,
                                           rec       |-> r.rec,
                                           parsed    |-> r.parsed])
    /\ workers' = [workers EXCEPT ![w] = NoTask]
    /\ UNCHANGED << file, calls, pc, readShape, csvOptions, fieldInfo, heap, pos,
                    recordNum, queue, submitted, result >>

PoolIdle == queue = <<>> /\ \A w \in 1..MaxConcurrency : workers[w] = NoTask

\* the deferred pool.WaitAndStop(), after which ReadCSV has returned
WaitAndStop ==
    /\ pc = "draining"
    /\ PoolIdle
    /\ pc' = "done"
    /\ UNCHANGED << file, calls, readShape, csvOptions, fieldInfo, heap, pos,
                    recordNum, queue, workers, submitted, completed, result >>

Next ==
    \/ \E n \in ShapeNames : \E choice \in RecordChoices(n) : WriteCSVCall(n, choice)
    \/ \E n \in ShapeNames : \E options \in OptionChoices : ReadCSVStart(n, options)
    \/ ReadRow
    \/ \E w \in 1..MaxConcurrency : WorkerTake(w)
    \/ \E w \in 1..MaxConcurrency : WorkerRun(w)
    \/ WaitAndStop

Spec == Init /\ [][Next]_vars

(***************************************************************************)
(* What the claims speak of, stated apart from the code above.             *)
(***************************************************************************)
\* the lines of a file that hold a row
Rows(f) == SelectSeq(f.lines, LAMBDA l : l # BlankLine)

HeaderRow == Head(Rows(file))

DataRows == Tail(Rows(file))

RECURSIVE JoinNames(_)
JoinNames(names) ==
    IF Len(names) = 1 THEN names[1]
    ELSE names[1] \o <<"_">> \o JoinNames(Tail(names))

\* the leaves of a record type, depth first in declaration order: the path
\* of each (0-based), its column name, its kind, its default tag, and
\* whether it lies in an optional sub-record
RECURSIVE Leaves(_, _, _, _)
Leaves(t, path, names, optional) ==
    Flatten([i \in 1..NumField(t) |->
        LET f  == t.fields[i]
            nm == Append(names, IF f.csv = <<>> THEN f.name ELSE f.csv)
            ft == IF f.type.kind = "ptr" THEN f.type.elem ELSE f.type
        IN  IF ft.kind = "struct"
            THEN Leaves(ft, Append(path, i - 1), nm, optional \/ f.type.kind = "ptr")
            ELSE << [path     |-> Append(path, i - 1),
                     column   |-> JoinNames(nm),
                     kind     |-> f.type.kind,
                     default  |-> f.default,
                     optional |-> optional] >>])

LeavesOf(n) ==
    IF ShapeType(n).kind = "struct" THEN Leaves(ShapeType(n), <<>>, <<>>, FALSE)
    ELSE <<>>

InHeader(column) == \E k \in 1..Len(HeaderRow) : HeaderRow[k] = column

\* the cell of a row under a column name, empty when the header has no such
\* column
CellOf(row, column) ==
    IF InHeader(column)
    THEN row[CHOOSE k \in 1..Len(HeaderRow) : HeaderRow[k] = column]
    ELSE <<>>

ZeroLiteral(kind) ==
    CASE kind = "string" -> <<>>
      [] kind = "bool"   -> <<"f", "a", "l", "s", "e">>
      [] OTHER           -> <<"0">>

\* the three tiers: the cell, else the default tag, else the zero literal
EffectiveLiteral(leaf, row) ==
    LET cell == CellOf(row, leaf.column)
    IN  IF cell # <<>> THEN cell
        ELSE IF leaf.default # <<>> THEN leaf.default
        ELSE ZeroLiteral(leaf.kind)

Parses(kind, lit) ==
    CASE kind = "string"  -> TRUE
      [] kind = "int"     -> ParseInt(lit).ok
      [] kind = "float64" -> ParseFloat(lit).ok
      [] OTHER            -> ParseBool(lit).ok

Decode(kind, lit) ==
    CASE kind = "string"  -> StrV(lit)
      [] kind = "int"     -> IntV(ParseInt(lit).v)
      [] kind = "float64" -> FloatV(ParseFloat(lit).v)
      [] OTHER            -> BoolV(ParseBool(lit).v)

\* the tasks whose record was handed to the handler, in the order of the calls
Handled == SelectSeq(completed, LAMBDA e : e.called)

\* the tasks whose record was filled from its row without an error
Built == { k \in 1..Len(completed) : completed[k].err \in {"nil", "handler error"} }

SupportedShapes == ShapeNames \ {"Unsupported", "Wrapped", "int"}

\* ReadCSV has read a header row and resolved a supported record type
Resolved == pc # "idle" /\ readShape \in SupportedShapes /\ Rows(file) # <<>>

\* the lines the j-th WriteCSV call added to the file
WrittenLines(j) ==
    LET after == IF j < Len(calls) THEN calls[j + 1].before ELSE file
    IN  SubSeq(after.lines, Len(calls[j].before.lines) + 1, Len(after.lines))

RECURSIVE HasNil(_, _)
HasNil(t, v) ==
    CASE t.kind = "ptr"    -> IsNil(v) \/ HasNil(t.elem, v.p)
      [] t.kind = "struct" -> \E k \in 1..NumField(t) : HasNil(t.fields[k].type, v.st[k])
      [] OTHER             -> FALSE

(***************************************************************************)
(* C1                                                                      *)
(***************************************************************************)
\* C1: records of a supported type written by one WriteCSV call to a fresh
\* path and read back with concurrency 1 reach the handler in file order,
\* equal to the records written, field for field.
C1_RoundTrip ==
    ( /\ pc = "done"
      /\ Len(calls) = 1
      /\ calls[1].before = NoFile
      /\ calls[1].records # <<>>
      /\ readShape \in SupportedShapes
      /\ csvOptions.concurrency = 1
      /\ csvOptions.handler # "nil" )
    => [k \in 1..Len(Handled) |-> Handled[k].rec] = calls[1].records

\* C1 for the records of type Deep (leaves four struct levels deep) whose
\* optional sub-record is present and whose strings are not empty
C1_RoundTripDeep ==
    ( /\ readShape = "Deep"
      /\ Len(calls) = 1
      /\ \A k \in 1..Len(calls[1].records) : calls[1].records[k] = Samples("Deep")[1] )
    => C1_RoundTrip

(***************************************************************************)
(* C2                                                                      *)
(***************************************************************************)
\* the record of the k-th data row, whatever the concurrency
RecordOfRow(k) ==
    processRecord([recordNum |-> k, record |-> DataRows[k]], ShapeType(readShape),
                  fieldInfo, heap, csvOptions.handler).rec

\* C2: for every concurrency, when every row decodes and the handler returns
\* nil, ReadCSV has by its return handed the handler each data row's record
\* exactly once: no row lost, doubled or mixed with another's values.
C2_EveryRowOnce ==
    ( /\ pc = "done"
      /\ result = "nil"
      /\ csvOptions.handler = "ok"
      /\ \A k \in 1..Len(completed) : completed[k].err = "nil" )
    => /\ Len(Handled) = Len(DataRows)
       /\ \A k \in 1..Len(DataRows) :
            \E j \in 1..Len(Handled) :
               /\ Handled[j].recordNum = k
               /\ Handled[j].rec = RecordOfRow(k)
               /\ \A i \in 1..Len(Handled) : Handled[i].recordNum = k => i = j

\* two workers have run the rows of a file out of file order
C2_Witness ==
    /\ pc = "done"
    /\ result = "nil"
    /\ csvOptions.handler = "ok"
    /\ csvOptions.concurrency = 2
    /\ Len(Handled) = 2
    /\ Handled[1].recordNum = 2
    /\ Handled[1].rec # Handled[2].rec
    /\ \A k \in 1..Len(completed) : completed[k].err = "nil"

(***************************************************************************)
(* C3                                                                      *)
(***************************************************************************)
\* C3: when a field of a row fails to decode or the handler returns an
\* error, ReadCSV returns an error.
C3_RowErrorReturned ==
    ( /\ pc = "done"
      /\ \E k \in 1..Len(completed) : completed[k].err # "nil" )
    => result # "nil"

(***************************************************************************)
(* C4                                                                      *)
(***************************************************************************)
\* C4: a leaf whose column the header lacks never fails the resolution, is
\* bound to no column (-1), and holds in every record built its default tag
\* value, or its kind's zero value when it has no default tag.
C4_MissingColumn ==
    Resolved =>
        /\ result # "failed to build field info"
        /\ \A k \in 1..Len(fieldInfo) :
             ~InHeader(fieldInfo[k].csvTag) => fieldInfo[k].columnIndex = -1
        /\ \A j \in Built : \A k \in 1..Len(LeavesOf(readShape)) :
             LET leaf == LeavesOf(readShape)[k]
             IN  ~InHeader(leaf.column) =>
                    FieldByIndex(completed[j].rec, leaf.path) =
                       Decode(leaf.kind, IF leaf.default # <<>> THEN leaf.default
                                         ELSE ZeroLiteral(leaf.kind))

(***************************************************************************)
(* C5                                                                      *)
(***************************************************************************)
\* C5: for every row and every leaf, the string decoded is the cell when it
\* is not empty, else the default tag when there is one, else the kind's zero
\* literal; and a row fails to decode only when one of these strings does
\* not parse, so never for an empty cell whose default is absent or parses.
C5_DefaultPrecedence ==
    \A j \in 1..Len(completed) :
        LET e      == completed[j]
            row    == submitted[e.recordNum]
            leaves == LeavesOf(readShape)
        IN  /\ Len(e.parsed) <= Len(leaves)
            /\ \A k \in 1..Len(e.parsed) :
                 e.parsed[k] = EffectiveLiteral(leaves[k], row)
            /\ (e.err = "failed to set field value") =
                 (\E k \in 1..Len(leaves) :
                     ~Parses(leaves[k].kind, EffectiveLiteral(leaves[k], row)))
            /\ e.err # "failed to set field value" => Len(e.parsed) = Len(leaves)

\* a row of empty cells was decoded for a type with default tags: a leaf took
\* its default, another its zero literal, and a row of the same file was
\* decoded from its cells
C5_Witness ==
    /\ readShape = "Tagged"
    /\ file = TaggedFile
    /\ Len(completed) = 2
    /\ \E j \in 1..2 :
         /\ completed[j].recordNum = 1
         /\ completed[j].err = "nil"
         /\ completed[j].parsed[2] = <<"7">>
         /\ completed[j].parsed[3] = <<"f", "a", "l", "s", "e">>
    /\ \E j \in 1..2 :
         /\ completed[j].recordNum = 2
         /\ completed[j].parsed[2] = <<"+", "4">>

(***************************************************************************)
(* C6                                                                      *)
(***************************************************************************)
\* no pointer of a value is nil, at any depth
RECURSIVE Materialized(_, _)
Materialized(t, v) ==
    CASE t.kind = "ptr"    -> ~IsNil(v) /\ Materialized(t.elem, v.p)
      [] t.kind = "struct" -> \A k \in 1..NumField(t) :
                                 Materialized(t.fields[k].type, v.st[k])
      [] OTHER             -> TRUE

\* the first half of C6: every record handed to the handler has every
\* optional sub-record non-nil, at every depth
C6_NonNil ==
    \A j \in 1..Len(Handled) : Materialized(ShapeType(readShape), Handled[j].rec)

\* C6: every record handed to the handler has every optional sub-record
\* non-nil at every depth, and the leaves of an optional sub-record whose
\* columns are in the header hold the row's values.
C6_OptionalMaterialized ==
    /\ C6_NonNil
    /\ \A j \in 1..Len(Handled) : \A k \in 1..Len(LeavesOf(readShape)) :
         LET leaf == LeavesOf(readShape)[k]
         IN  (leaf.optional /\ InHeader(leaf.column)) =>
                FieldByIndex(Handled[j].rec, leaf.path) =
                   Decode(leaf.kind,
                          EffectiveLiteral(leaf, submitted[Handled[j].recordNum]))

(***************************************************************************)
(* C7                                                                      *)
(***************************************************************************)
\* the cells of a record when a nil optional sub-record gives, for each leaf
\* of its flattened span, the leaf kind's zero literal
RECURSIVE ZeroLiteralCells(_, _)
ZeroLiteralCells(t, v) ==
    CASE t.kind = "ptr" ->
           IF IsNil(v)
           THEN LET ls == Leaves(t.elem, <<>>, <<>>, TRUE)
                IN  [k \in 1..Len(ls) |-> ZeroLiteral(ls[k].kind)]
           ELSE ZeroLiteralCells(t.elem, v.p)
      [] t.kind = "struct" ->
           Flatten([k \in 1..NumField(t) |-> ZeroLiteralCells(t.fields[k].type, v.st[k])])
      [] OTHER -> <<FormatValue(v)>>

\* the cells of a record when a nil optional sub-record gives one empty
\* string for each direct field of its type
RECURSIVE EmptyPerFieldCells(_, _)
EmptyPerFieldCells(t, v) ==
    CASE t.kind = "ptr" ->
           IF IsNil(v) THEN [k \in 1..NumField(t.elem) |-> <<>>]
           ELSE EmptyPerFieldCells(t.elem, v.p)
      [] t.kind = "struct" ->
           Flatten([k \in 1..NumField(t) |-> EmptyPerFieldCells(t.fields[k].type, v.st[k])])
      [] OTHER -> <<FormatValue(v)>>

\* the written records of a type with an optional sub-record, with their lines
OptionalWritten ==
    { <<j, k>> \in (1..Len(calls)) \X (1..MaxRecords + 1) :
        /\ calls[j].err = "nil"
        /\ k <= Len(calls[j].records)
        /\ \E i \in 1..Len(LeavesOf(calls[j].shape)) : LeavesOf(calls[j].shape)[i].optional }

C8_DrainedAtReturn ==
    pc = "done" =>
        /\ queue = <<>>
        /\ \A w \in 1..MaxConcurrency : workers[w] = NoTask
        /\ Len(completed) = Len(submitted)
        /\ \A k \in 1..Len(submitted) :
             \E j \in 1..Len(completed) : completed[j].recordNum = k

\* ReadCSV returned the error of a row it could not read, after rows it had
\* dispatched
C8_Witness ==
    /\ pc = "done"
    /\ result = "failed to read record"
    /\ Len(submitted) >= 2
    /\ csvOptions.concurrency = 2

(***************************************************************************)
(* C9                                                                      *)
(***************************************************************************)
\* the first data row the reader fails on (its number of fields is not the
\* header's), or 0
FirstBadRow ==
    IF \E k \in 1..Len(DataRows) : Len(DataRows[k]) # Len(HeaderRow)
    THEN CHOOSE k \in 1..Len(DataRows) :
            /\ Len(DataRows[k]) # Len(HeaderRow)
            /\ \A j \in 1..(k - 1) : Len(DataRows[j]) = Len(HeaderRow)
    ELSE 0

\* C9: the rows submitted so far are a prefix of the file's data rows, in
\* file order; all of them once the end of the file is reached; and exactly
\* those before row k when reading row k fails.
C9_SubmittedInFileOrder ==
    pc \in {"loop", "draining", "done"} /\ Rows(file) # <<>> =>
        /\ Len(submitted) <= Len(DataRows)
        /\ submitted = SubSeq(DataRows, 1, Len(submitted))
        /\ Len(queue) + Cardinality({w \in 1..MaxConcurrency : workers[w] # NoTask})
             + Len(completed) = Len(submitted)
        /\ (pc # "loop" /\ result = "nil") => submitted = DataRows
        /\ result = "failed to read record" =>
             FirstBadRow > 0 /\ Len(submitted) = FirstBadRow - 1

\* the reading failed at the fifth row of a file, after an empty line
C9_Witness ==
    /\ pc = "done"
    /\ result = "failed to read record"
    /\ FirstBadRow = 4
    /\ Len(submitted) = 3
    /\ Len(file.lines) > Len(Rows(file))

(***************************************************************************)
(* C11                                                                     *)
(***************************************************************************)
\* the file as the j-th WriteCSV call left it
FileAfter(j) == IF j < Len(calls) THEN calls[j + 1].before ELSE file

\* C11: a WriteCSV call with no records returns an error and does no I/O:
\* it does not open or create the file, which is left as it was (absent if
\* it was absent).
C11_EmptyInputNoIO ==
    \A j \in 1..Len(calls) :
        calls[j].records = <<>> =>
            /\ calls[j].err = "no records to write"
            /\ ~calls[j].opened
            /\ FileAfter(j) = calls[j].before

\* WriteCSV was called twice with no records on a path with no file, and
\* there is still no file
C11_Witness ==
    /\ Len(calls) = 2
    /\ calls[1].records = <<>> /\ ~calls[1].before.exists
    /\ calls[2].records = <<>> /\ ~file.exists

(***************************************************************************)
(* C12                                                                     *)
(***************************************************************************)
\* the column names of a record type, from its leaves
ColumnNames(n) == [k \in 1..Len(LeavesOf(n)) |-> LeavesOf(n)[k].column]

\* the number of lines the first j calls should have added: for each call
\* that succeeded, one header row and one row for each record
RECURSIVE RowsAdded(_)
RowsAdded(j) ==
    IF j = 0 THEN 0
    ELSE RowsAdded(j - 1)
         + (IF calls[j].err = "nil" THEN Len(calls[j].records) + 1 ELSE 0)

\* C12: a WriteCSV call that succeeds leaves what the file held as a prefix
\* and adds after it one header row and then one row for each record, on a
\* file that was there as on a path with no file; so the calls made so far
\* have left (n1 + 1) + ... + (nk + 1) rows, in the order of the calls.  A
\* row is a line of the file (csv.Writer ends every record with a newline,
\* a record of one empty field being an empty line).
C12_AppendNeverOverwrite ==
    /\ \A j \in 1..Len(calls) :
         calls[j].err = "nil" =>
            LET before == calls[j].before.lines
                after  == FileAfter(j)
                n      == Len(calls[j].records)
            IN  /\ after.exists
                /\ Len(after.lines) = Len(before) + 1 + n
                /\ SubSeq(after.lines, 1, Len(before)) = before
                /\ after.lines[Len(before) + 1] = ColumnNames(calls[j].shape)
    /\ (calls # <<>> /\ calls[1].before = NoFile) =>
          Len(file.lines) = RowsAdded(Len(calls))

\* two calls succeeded on one path, the second on the file the first had
\* written: the file holds the header row twice, before each call's rows
C12_Witness ==
    /\ Len(calls) = 2
    /\ calls[1].err = "nil" /\ calls[2].err = "nil"
    /\ Len(calls[1].records) = 2 /\ Len(calls[2].records) = 1
    /\ Len(file.lines) = 5
    /\ file.lines[1] = file.lines[4]
    /\ file.lines[2] # file.lines[5]

(***************************************************************************)
(* C13                                                                     *)
(***************************************************************************)
\* the leaves of the type read whose cell in a row is not empty and does not
\* parse as the leaf's kind, as places in LeavesOf(readShape)
BadCells(row) ==
    { k \in 1..Len(LeavesOf(readShape)) :
        LET leaf == LeavesOf(readShape)[k]
        IN  /\ CellOf(row, leaf.column) # <<>>
            /\ ~Parses(leaf.kind, CellOf(row, leaf.column)) }

\* C13: when a cell of a row is not empty and does not parse as its field's
\* kind, the read fails with the parse error, which names the field of such
\* a cell (and the line of the row).
C13_ParseErrorNamesFieldAndLine ==
    (pc = "done" /\ Resolved) =>
        \A j \in 1..Len(completed) :
            LET bad == BadCells(submitted[completed[j].recordNum])
            IN  bad # {} =>
                   /\ completed[j].err = "failed to set field value"
                   /\ \E k \in bad : completed[j].field = fieldInfo[k].fieldName
                   /\ result = "failed to set field value"

(***************************************************************************)
(* C14                                                                     *)
(***************************************************************************)
\* a record type has, at some depth, a leaf that is no string, int, float or
\* bool
RECURSIVE HasUnsupportedLeaf(_)
HasUnsupportedLeaf(t) ==
    CASE t.kind = "struct" ->
           \E k \in 1..NumField(t) :
              LET ft == t.fields[k].type
              IN  IF ft.kind = "ptr"
                  THEN ft.elem.kind # "struct" \/ HasUnsupportedLeaf(ft.elem)
                  ELSE HasUnsupportedLeaf(ft)
      [] OTHER -> t.kind \notin {"string", "int", "float64", "bool"}

\* C14: once ReadCSV has read the header row of a file for a record type
\* with a leaf of an unsupported kind, at any depth, it fails with the error
\* of the resolution, whether or not the header has the leaf's column: no
\* data row is read or dispatched and the handler is never invoked.
C14_UnsupportedFailsResolution ==
    ( /\ pc # "idle"
      /\ Rows(file) # <<>>
      /\ ShapeType(readShape).kind = "struct"
      /\ HasUnsupportedLeaf(ShapeType(readShape)) )
    => /\ result = "failed to build field info"
       /\ pc \in {"draining", "done"}
       /\ pos = NextLine(file.lines, 1) + 1
       /\ submitted = <<>> /\ queue = <<>> /\ completed = <<>>
       /\ \A w \in 1..MaxConcurrency : workers[w] = NoTask

\* ReadCSV has returned the error for a type whose unsupported leaf lies in
\* an optional sub-record, on a file that has the leaf's column and a data row
C14_Witness ==
    /\ pc = "done"
    /\ readShape = "Wrapped"
    /\ result = "failed to build field info"
    /\ InHeader(<<"i", "n", "_", "c", "o", "u", "n", "t">>)
    /\ DataRows # <<>>
    /\ csvOptions.handler = "ok"

(***************************************************************************)
(* C15                                                                     *)
(***************************************************************************)
\* the record types that are structs
StructShapes == { n \in ShapeNames : ShapeType(n).kind = "struct" }

\* C15: for every record type read the headers written are the column names of
\* its leaves, depth first in declaration order, each the tag names of the
\* leaf's ancestors and its own joined with "_"; the bindings ReadCSV builds
\* are one for each leaf in the same order, the i-th looking up the i-th
\* header's name; so on a file WriteCSV wrote for the type the i-th binding
\* is bound to the i-th column.
C15_HeadersMatchBindings ==
    /\ (pc # "idle" /\ readShape \in StructShapes) =>
          extractHeaders(ShapeType(readShape), <<>>) = ColumnNames(readShape)
    /\ (Resolved /\ result # "failed to build field info") =>
          /\ Len(fieldInfo) = Len(ColumnNames(readShape))
          /\ \A k \in 1..Len(fieldInfo) :
               fieldInfo[k].csvTag = extractHeaders(ShapeType(readShape), <<>>)[k]
          /\ (Len(calls) = 1 /\ calls[1].err = "nil") =>
                /\ HeaderRow = [k \in 1..Len(fieldInfo) |-> fieldInfo[k].csvTag]
                /\ \A k \in 1..Len(fieldInfo) : fieldInfo[k].columnIndex = k - 1

\* ReadCSV has resolved Deep against the header WriteCSV wrote for it: the
\* binding of X looks up a_b_c_x, the second column
C15_Witness ==
    /\ pc # "idle"
    /\ readShape = "Deep"
    /\ Len(calls) = 1 /\ calls[1].err = "nil"
    /\ Len(fieldInfo) = 3
    /\ fieldInfo[2].csvTag = <<"a", "_", "b", "_", "c", "_", "x">>
    /\ fieldInfo[2].columnIndex = 1
    /\ HeaderRow[2] = fieldInfo[2].csvTag

(***************************************************************************)
(* C16                                                                     *)
(***************************************************************************)
\* the field path a binding holds once buildFieldInfo has returned
PathOf(k) == SliceElems(heap, fieldInfo[k].index)

\* C16: the field path of every binding buildFieldInfo returns is the path
\* of the binding's own leaf, so the paths of two leaves differ, whatever the
\* depth of the record type.
C16_PathsLocateLeaves ==
    (Resolved /\ result # "failed to build field info") =>
        /\ \A k \in 1..Len(fieldInfo) : PathOf(k) = LeavesOf(readShape)[k].path
        /\ \A j, k \in 1..Len(fieldInfo) : j # k => PathOf(j) # PathOf(k)

(***************************************************************************)
(* C17                                                                     *)
(***************************************************************************)
\* the number of fields of a line of the file: an empty line is a record of
\* one empty field
Width(line) == IF line = BlankLine THEN 1 ELSE Len(line)

\* C17: every data row a WriteCSV call wrote has as many fields as the
\* header row the call wrote, also for a record whose optional sub-record is
\* nil and holds sub-records of its own.
C17_RowWidthIsHeaderWidth ==
    \A j \in 1..Len(calls) :
        calls[j].err = "nil" =>
            \A k \in 2..Len(WrittenLines(j)) :
                Width(WrittenLines(j)[k]) = Width(WrittenLines(j)[1])
====
